---- MODULE Spec2Model ----
(***************************************************************************)
(* Model of the inventory application's client-side synchronisation       *)
(* engine (App component): in-memory React state, the localStorage cache, *)
(* the debounced / fire-and-forget saves and the sign-in load sequence.   *)
(*                                                                         *)
(* React semantics used by the model:                                      *)
(*  - a callback created by a render captures that render's `user`,       *)
(*    `items` and `customFields` (a closure); refs (hasLoadedRef,         *)
(*    dirtyRef, saveTimerRef) are shared by all renders;                  *)
(*  - the state updates of one handler are committed in one render, whose *)
(*    effects run before any timer callback or network completion         *)
(*    (React 18: automatic batching, effects of a discrete event are      *)
(*    flushed with the commit).                                           *)
(* A remote call is one step: the store applies it when it resolves.      *)
(***************************************************************************)
EXTENDS Integers, Sequences, FiniteSets, TLC

\* ---------------------------------------------------------------- bounds
MaxNow == 2        \* Date.now() values handed out as ids
MaxPending == 2    \* asynchronous operations in flight
MaxVariantNow == 3 \* Date.now() values handed out to variant and import ids
MaxLines == 3      \* lines of a CSV file
MaxErrorLines == 2 \* lines of a CSV file whose import is refused
MaxQuantity == 1   \* quantity reached with the + button

\* ------------------------------------------------------------ identities
NoUser == "none"
Users == {"u1", "u2"}

\* the identity that signs in under Spec
MainUsers == {"u1"}

VARIABLES
  session,       \* the auth session held by the auth client
  user,          \* useState user (its id), NoUser when null
  loading,       \* useState loading
  items,         \* useState items
  customFields,  \* useState customFields
  hasLoaded,     \* hasLoadedRef.current
  dirty,         \* dirtyRef.current
  saveTimer,     \* the pending debounce timer: <<>> or <<closure>>
  ticks,         \* pending setTimeout(() => saveNow(..), 0) callbacks
  saves,         \* saveInventoryData calls in flight
  loads,         \* loadUserData calls in flight
  getSessions,   \* pending getSession() promises (closure user of each)
  cache,         \* localStorage: storage key (user id) -> snapshot
  remote,        \* table inventory_data: user_id -> row
  toast,         \* the failure toast shown by the last step, or "none"
  now,           \* Date.now()
  selectedFile,  \* CSVImportDialog: useState selectedFile, <<>> when null
  error,         \* CSVImportDialog: useState error
  draft,         \* the fields of the open add-item row or form, <<>> when closed
  storageFull    \* localStorage.setItem throws (quota exceeded)

vars == <<session, user, loading, items, customFields, hasLoaded, dirty,
          saveTimer, ticks, saves, loads, getSessions, cache, remote,
          toast, now, selectedFile, error, draft, storageFull>>

\* the state of the dialogs: the CSV import dialog and the add-item form
dialog == <<selectedFile, error, draft>>

\* the asynchronous operations in flight: setTimeout(..., 0) callbacks,
\* saveInventoryData calls and loadUserData calls
Pending == Len(ticks) + Len(saves) + Len(loads)

\* --------------------------------------------------------------- helpers
Put(f, k, v) == [f EXCEPT ![k] = v]

RemoveAt(s, i) == [j \in 1..(Len(s) - 1) |-> IF j < i THEN s[j] ELSE s[j + 1]]

Max(a, b) == IF a >= b THEN a ELSE b

\* the JSON value written to the cache and the columns of a remote row
Snapshot(i, f) == [present |-> TRUE, inventory |-> i, custom_fields |-> f]

\* no value under a storage key / no row for a user_id
Absent == [present |-> FALSE, inventory |-> <<>>, custom_fields |-> <<>>]

\* what a callback created by a render sees
Closure(u, i, f) == [user |-> u, items |-> i, customFields |-> f]

\* ------------------------------------------------------------ data model
\* ids are built from Date.now(): `${Date.now()}` is the tuple <<now>>,
\* `${a}-${b}` the tuple <<a, b>>, "temp-0" the tuple <<0, 0>>.
\* Text (sku, title, size, location, file contents) is a sequence of
\* one-character strings.
EmptyRow == Snapshot(<<>>, <<>>)

\* the submission of QuickAddRow used as add-item input: one size row with
\* the default quantity "0"
QuickAddData ==
  [sku |-> <<"A", "1">>, title |-> <<"S">>, imageUrl |-> <<>>,
   variants |-> << [id |-> <<0, 0>>, size |-> <<"M">>, quantity |-> 0,
                    inStock |-> FALSE, location |-> <<"R">>] >>,
   customFields |-> <<>>]

FormInputs == {QuickAddData}

QuantityInputs == {-1, 0}

\* handleAddItem: the item appended to items
NewItem(data, t) ==
  [id |-> <<t>>, sku |-> data.sku, title |-> data.title,
   imageUrl |-> data.imageUrl, variants |-> data.variants,
   customFields |-> data.customFields]

\* handleDeleteItem: prev.filter(x => x.id !== id)
DeleteItem(prev, id) == SelectSeq(prev, LAMBDA x : x.id # id)

\* (mutant) handleUpdateQuantity without Math.max(0, newQuantity)
UpdateQuantity_NoClamp(prev, itemId, variantId, newQuantity) ==
  LET quantity == newQuantity
      upd(v) == IF v.id = variantId
                THEN [v EXCEPT !.quantity = quantity, !.inStock = quantity > 0]
                ELSE v
  IN [k \in 1..Len(prev) |->
        IF prev[k].id # itemId THEN prev[k]
        ELSE [prev[k] EXCEPT !.variants =
                [j \in 1..Len(prev[k].variants) |-> upd(prev[k].variants[j])]]]

\* handleUpdateQuantity: clamp, then map over items and variants
UpdateQuantity(prev, itemId, variantId, newQuantity) ==
  LET quantity == Max(0, newQuantity)
      upd(v) == IF v.id = variantId
                THEN [v EXCEPT !.quantity = quantity, !.inStock = quantity > 0]
                ELSE v
  IN [k \in 1..Len(prev) |->
        IF prev[k].id # itemId THEN prev[k]
        ELSE [prev[k] EXCEPT !.variants =
                [j \in 1..Len(prev[k].variants) |-> upd(prev[k].variants[j])]]]

\* (mutant) handleUpdateLocation that ignores the variant id
UpdateLocation_AllVariants(prev, itemId, variantId, newLocation) ==
  [k \in 1..Len(prev) |->
     IF prev[k].id # itemId THEN prev[k]
     ELSE [prev[k] EXCEPT !.variants =
             [j \in 1..Len(prev[k].variants) |->
                [prev[k].variants[j] EXCEPT !.location = newLocation]]]]

\* handleUpdateLocation: map over items and variants
UpdateLocation(prev, itemId, variantId, newLocation) ==
  LET upd(v) == IF v.id = variantId
                THEN [v EXCEPT !.location = newLocation]
                ELSE v
  IN [k \in 1..Len(prev) |->
        IF prev[k].id # itemId THEN prev[k]
        ELSE [prev[k] EXCEPT !.variants =
                [j \in 1..Len(prev[k].variants) |-> upd(prev[k].variants[j])]]]

\* -------------------------------------------------------------- text
\* String.prototype.trim
IsSpace(c) == c \in {" ", "\t", "\r", "\n"}

RECURSIVE TrimStart(_)
TrimStart(t) ==
  IF t # <<>> /\ IsSpace(Head(t)) THEN TrimStart(Tail(t)) ELSE t

RECURSIVE TrimEnd(_)
TrimEnd(t) ==
  IF t # <<>> /\ IsSpace(t[Len(t)])
  THEN TrimEnd(SubSeq(t, 1, Len(t) - 1)) ELSE t

Trim(t) == TrimEnd(TrimStart(t))

\* parseInt(t) for decimal text: leading white space, an optional sign,
\* then the longest run of digits; <<>> stands for NaN
Digits == <<"0", "1", "2", "3", "4", "5", "6", "7", "8", "9">>

IsDigit(c) == \E d \in 1..10 : Digits[d] = c

DigitValue(c) == (CHOOSE d \in 1..10 : Digits[d] = c) - 1

RECURSIVE DigitRun(_, _)
DigitRun(t, acc) ==
  IF t # <<>> /\ IsDigit(Head(t))
  THEN DigitRun(Tail(t), 10 * acc + DigitValue(Head(t)))
  ELSE acc

parseInt(t) ==
  LET u == TrimStart(t)
      signed == u # <<>> /\ Head(u) \in {"-", "+"}
      body == IF signed THEN Tail(u) ELSE u
  IN IF body = <<>> \/ ~IsDigit(Head(body)) THEN <<>>
     ELSE IF signed /\ Head(u) = "-" THEN <<0 - DigitRun(body, 0)>>
     ELSE <<DigitRun(body, 0)>>

\* parseInt(t) || 0
parseIntOr0(t) == IF parseInt(t) = <<>> THEN 0 ELSE parseInt(t)[1]

\* String.prototype.toLowerCase, for the letters A-Z
UpperCase == <<"A", "B", "C", "D", "E", "F", "G", "H", "I", "J", "K", "L", "M", "N", "O", "P", "Q", "R", "S", "T", "U", "V", "W", "X", "Y", "Z">>

LowerCase == <<"a", "b", "c", "d", "e", "f", "g", "h", "i", "j", "k", "l", "m", "n", "o", "p", "q", "r", "s", "t", "u", "v", "w", "x", "y", "z">>

ToLowerChar(c) ==
  IF \E d \in 1..26 : UpperCase[d] = c
  THEN LowerCase[CHOOSE d \in 1..26 : UpperCase[d] = c]
  ELSE c

toLowerCase(t) == [k \in 1..Len(t) |-> ToLowerChar(t[k])]

\* String.prototype.split(sep) for a one-character separator: the pieces
\* between the occurrences of sep, in order
Split(t, sep) ==
  LET cuts == { i \in 1..Len(t) : t[i] = sep } \cup {0, Len(t) + 1}
      Cut(n) == CHOOSE c \in cuts : Cardinality({ d \in cuts : d < c }) = n
  IN [n \in 1..(Cardinality(cuts) - 1) |->
        SubSeq(t, Cut(n - 1) + 1, Cut(n) - 1)]

\* Array.prototype.join(sep)
RECURSIVE Join(_, _)
Join(parts, sep) ==
  IF parts = <<>> THEN <<>>
  ELSE IF Len(parts) = 1 THEN parts[1]
  ELSE parts[1] \o sep \o Join(Tail(parts), sep)

\* Number.prototype.toString for integers
RECURSIVE NatToText(_)
NatToText(n) ==
  IF n < 10 THEN <<Digits[n + 1]>>
  ELSE NatToText(n \div 10) \o <<Digits[(n % 10) + 1]>>

IntToText(n) == IF n < 0 THEN <<"-">> \o NatToText(0 - n) ELSE NatToText(n)

\* handleAddVariant: the variant appended to the item, t is Date.now()
AddVariant(prev, itemId, size, t) ==
  LET newVariant == [id |-> itemId \o <<t>>, size |-> size, quantity |-> 0,
                     inStock |-> FALSE, location |-> <<>>]
  IN [k \in 1..Len(prev) |->
        IF prev[k].id # itemId THEN prev[k]
        ELSE [prev[k] EXCEPT !.variants = Append(@, newVariant)]]

\* handleDeleteVariant: some item has the id and holds at most one variant,
\* the "cannot delete" toast is raised
DeleteVariantRejected(prev, itemId) ==
  \E k \in 1..Len(prev) :
     prev[k].id = itemId /\ Len(prev[k].variants) <= 1

\* (mutant) handleDeleteVariant without the check on the last variant
DeleteVariant_NoFloor(prev, itemId, variantId) ==
  [k \in 1..Len(prev) |->
     IF prev[k].id # itemId THEN prev[k]
     ELSE [prev[k] EXCEPT !.variants =
             SelectSeq(@, LAMBDA v : v.id # variantId)]]

\* handleDeleteVariant: the map over items
DeleteVariant(prev, itemId, variantId) ==
  [k \in 1..Len(prev) |->
     IF prev[k].id # itemId THEN prev[k]
     ELSE IF Len(prev[k].variants) <= 1 THEN prev[k]
     ELSE [prev[k] EXCEPT !.variants =
             SelectSeq(@, LAMBDA v : v.id # variantId)]]

\* ------------------------------------------------------- CSV codec
\* parseCSV (InventoryForm.tsx 380-462).  Variant ids are
\* `${Date.now()}-${Math.random()}`: the tuple <<t, r>>, where r numbers the
\* calls of Math.random() of one import (their values are taken pairwise
\* distinct).
\* a tokenizer that splits on every comma, quoted or not
RECURSIVE Tokenize_NoQuotes(_, _, _, _)
Tokenize_NoQuotes(line, i, current, inQuotes) ==
  IF i > Len(line) THEN <<Trim(current)>>
  ELSE IF line[i] = "\""
       THEN Tokenize_NoQuotes(line, i + 1, current, ~inQuotes)
  ELSE IF line[i] = ","
       THEN <<Trim(current)>> \o Tokenize_NoQuotes(line, i + 1, <<>>, inQuotes)
  ELSE Tokenize_NoQuotes(line, i + 1, Append(current, line[i]), inQuotes)

\* the tokenizer: quotes toggle inQuotes and are dropped, a comma outside
\* quotes ends the field, every field is trimmed
RECURSIVE Tokenize(_, _, _, _)
Tokenize(line, i, current, inQuotes) ==
  IF i > Len(line) THEN <<Trim(current)>>
  ELSE IF line[i] = "\""
       THEN Tokenize(line, i + 1, current, ~inQuotes)
  ELSE IF line[i] = "," /\ ~inQuotes
       THEN <<Trim(current)>> \o Tokenize(line, i + 1, <<>>, inQuotes)
  ELSE Tokenize(line, i + 1, Append(current, line[i]), inQuotes)

\* sizeStr.split(',').map(s => s.trim()).filter(s => s)
ParseSizes(sizeStr) ==
  LET parts == Split(sizeStr, ",")
  IN SelectSeq([k \in 1..Len(parts) |-> Trim(parts[k])],
               LAMBDA x : x # <<>>)

\* one data line: <<>> when the line is skipped, else <<the parsed row>>
ParseRow(line) ==
  LET fields == Tokenize(line, 1, <<>>, FALSE)
  IN IF Len(fields) < 6 THEN <<>>
     ELSE << [sku |-> Trim(fields[1]),
              title |-> Trim(fields[2]),
              sizes |-> ParseSizes(fields[3]),
              inStock |-> toLowerCase(fields[4]) = <<"t", "r", "u", "e">>
                            \/ fields[4] = <<"1">>,
              quantity |-> parseIntOr0(fields[5]),
              location |-> Trim(fields[6]),
              imageUrl |-> IF Len(fields) >= 7 THEN Trim(fields[7])
                           ELSE <<>>] >>

\* the number of variants held by the items: the calls of Math.random()
RECURSIVE CountVariants(_)
CountVariants(its) ==
  IF its = <<>> THEN 0
  ELSE Len(Head(its).variants) + CountVariants(Tail(its))

\* the variants of a row, one per size
RowVariants(row, t, r0) ==
  [j \in 1..Len(row.sizes) |->
     [id |-> <<t, r0 + j>>, size |-> row.sizes[j], inStock |-> row.inStock,
      quantity |-> row.quantity, location |-> row.location]]

\* MergeRow where a later row of a SKU replaces the title and the image
MergeRow_LastTitle(acc, row, t) ==
  LET vs == RowVariants(row, t, CountVariants(acc))
  IN IF \E k \in 1..Len(acc) : acc[k].sku = row.sku
     THEN [k \in 1..Len(acc) |->
             IF acc[k].sku = row.sku
             THEN [acc[k] EXCEPT !.variants = @ \o vs,
                                 !.title = row.title,
                                 !.imageUrl = row.imageUrl]
             ELSE acc[k]]
     ELSE Append(acc, [sku |-> row.sku, title |-> row.title,
                       imageUrl |-> row.imageUrl, variants |-> vs])

\* itemsMap.has(skuKey) ? push the variants : set a new item
MergeRow(acc, row, t) ==
  LET vs == RowVariants(row, t, CountVariants(acc))
  IN IF \E k \in 1..Len(acc) : acc[k].sku = row.sku
     THEN [k \in 1..Len(acc) |->
             IF acc[k].sku = row.sku
             THEN [acc[k] EXCEPT !.variants = @ \o vs]
             ELSE acc[k]]
     ELSE Append(acc, [sku |-> row.sku, title |-> row.title,
                       imageUrl |-> row.imageUrl, variants |-> vs])

\* a fold that gives up at the first skipped line
RECURSIVE FoldRows_StopAtShort(_, _, _)
FoldRows_StopAtShort(dataLines, acc, t) ==
  IF dataLines = <<>> THEN acc
  ELSE LET row == ParseRow(Head(dataLines))
       IN IF row = <<>> THEN acc
          ELSE FoldRows_StopAtShort(Tail(dataLines),
                                    MergeRow(acc, row[1], t), t)

\* dataLines.forEach
RECURSIVE FoldRows(_, _, _)
FoldRows(dataLines, acc, t) ==
  IF dataLines = <<>> THEN acc
  ELSE LET row == ParseRow(Head(dataLines))
       IN FoldRows(Tail(dataLines),
                   IF row = <<>> THEN acc ELSE MergeRow(acc, row[1], t),
                   t)

\* text.split('\n').filter(line => line.trim())
NonBlankLines(text) ==
  SelectSeq(Split(text, "\n"), LAMBDA line : Trim(line) # <<>>)

\* parseCSV: error is the message of the thrown Error, "" when none
parseCSV(text, t) ==
  LET lines == NonBlankLines(text)
  IN IF Len(lines) < 2
     THEN [error |-> "Empty", items |-> <<>>]
     ELSE [error |-> "", items |-> FoldRows(Tail(lines), <<>>, t)]

\* handleExportCSV (part_001 394-406): the header and one row per variant
CsvHeader ==
  <<"S", "K", "U", ",", "T", "I", "T", "L", "E", ",", "S", "I", "Z",
   "E", ",", "I", "N", " ", "S", "T", "O", "C", "K", ",", "Q", "U", "A",
   "N", "T", "I", "T", "Y", ",", "L", "O", "C", "A", "T", "I", "O", "N",
   ",", "I", "M", "A", "G", "E", "_", "U", "R", "L">>

BoolToText(b) == IF b THEN <<"t", "r", "u", "e">>
                 ELSE <<"f", "a", "l", "s", "e">>

ExportRow(item, variant) ==
  Join(<<item.sku, item.title, variant.size, BoolToText(variant.inStock),
         IntToText(variant.quantity), variant.location, item.imageUrl>>,
       <<",">>)

\* (mutant) one row per item, for its first variant
RECURSIVE ExportRows_FirstVariant(_)
ExportRows_FirstVariant(its) ==
  IF its = <<>> THEN <<>>
  ELSE [j \in 1..(IF Head(its).variants = <<>> THEN 0 ELSE 1) |->
          ExportRow(Head(its), Head(its).variants[j])]
       \o ExportRows_FirstVariant(Tail(its))

RECURSIVE ExportRows(_)
ExportRows(its) ==
  IF its = <<>> THEN <<>>
  ELSE [j \in 1..Len(Head(its).variants) |->
          ExportRow(Head(its), Head(its).variants[j])]
       \o ExportRows(Tail(its))

exportCSV(its) == Join(<<CsvHeader>> \o ExportRows(its), <<"\n">>)

\* ------------------------------------------------------ cache (49-79)
\* a stored value that JSON.parse rejects
Corrupt == [present |-> TRUE, corrupt |-> TRUE]

IsCorrupt(v) == "corrupt" \in DOMAIN v

\* writeCache of a render whose user is u: no-op without a user id; the
\* exception of localStorage.setItem is swallowed
writeCache(ca, u, i, f) ==
  IF u = NoUser \/ storageFull THEN ca ELSE Put(ca, u, Snapshot(i, f))

\* (mutant) readCache returns whatever is stored
readCache_Unparsed(ca, u) ==
  IF u = NoUser THEN <<>>
  ELSE IF ~ca[u].present THEN <<>>
  ELSE IF IsCorrupt(ca[u]) THEN << Snapshot(<<>>, <<>>) >>
  ELSE <<ca[u]>>

\* readCache of a render whose user is u: <<>> stands for null, returned
\* without a user id, without a stored value and when JSON.parse throws
readCache(ca, u) ==
  IF u = NoUser THEN <<>>
  ELSE IF ~ca[u].present \/ IsCorrupt(ca[u]) THEN <<>> ELSE <<ca[u]>>

\* ------------------------------------------------ save scheduler (81-121)
\* saveTimer holds the pending debounce timers in arming order; the ref
\* saveTimerRef names the one armed last.
\* (mutant) clearTimeout that cancels nothing
clearTimeout_Noop(tm) == tm

\* window.clearTimeout(saveTimerRef.current): the timer the ref names is
\* no longer pending
clearTimeout(tm) == IF tm = <<>> THEN <<>> ELSE SubSeq(tm, 1, Len(tm) - 1)

\* the timer part of scheduleSave (115-118): the timer the ref names is
\* cleared, a timer calling the saveNow of closure c is armed
ArmTimer(tm, c) == Append(clearTimeout(tm), c)

\* the guards of saveNow, for the saveNow created by the render of closure c
SaveNowRuns(c) == c.user # NoUser /\ hasLoaded /\ dirty

\* (mutant) saveNow without the clearTimeout
saveNow_KeepTimer(c, tm) ==
  IF SaveNowRuns(c)
  THEN /\ saveTimer' = tm
       /\ saves' = Append(saves, c)
  ELSE /\ saveTimer' = tm
       /\ saves' = saves

\* saveNow(c): clears the timer and starts saveInventoryData with the
\* closure's items and customFields; tm is the timer before the call
saveNow(c, tm) ==
  IF SaveNowRuns(c)
  THEN /\ saveTimer' = clearTimeout(tm)
       /\ saves' = Append(saves, c)
  ELSE /\ saveTimer' = tm
       /\ saves' = saves

\* (mutant) scheduleSave without the hasLoadedRef guard
ScheduleSaveRuns_NoLoadedGuard(c, hl) == c.user # NoUser

\* the guard of scheduleSave for the render of closure c, loaded flag hl
ScheduleSaveRuns(c, hl) == c.user # NoUser /\ hl

\* ------------------------------------------- render commit and effects
\* The render that follows a handler: u2, i2, f2 are the new state values,
\* changed says that setItems / setCustomFields installed a new array,
\* hl, d, tm, ca, gs are the refs, the timer, the cache and the pending
\* getSession promises as the handler left them.
\*  - saveNow changes when user.id, items or customFields change; the
\*    cleanup of the visibility effect then clears the pending timer;
\*  - the auth effect re-runs when user.id changes and calls getSession();
\*  - the change-effect writes the cache and calls scheduleSave(300).
\* (mutant) the change-effect does not write the cache
CommitCache_Skip(u2, i2, f2, effectRuns, ca) == ca

\* (mutant) the change-effect writes the cache without its guard, under
\* the storage key of the previous render when there is no user
CommitCache_Unguarded(u2, i2, f2, effectRuns, ca) ==
  writeCache(ca, IF u2 = NoUser THEN user ELSE u2, i2, f2)

\* the cache after the change-effect of the render (185-187)
CommitCache(u2, i2, f2, effectRuns, ca) ==
  IF effectRuns THEN writeCache(ca, u2, i2, f2) ELSE ca

Commit(u2, i2, f2, changed, hl, d, tm, ca, gs) ==
  LET depsChanged == changed \/ u2 # user
      effectRuns == depsChanged /\ ScheduleSaveRuns(Closure(u2, i2, f2), hl)
  IN /\ user' = u2
     /\ items' = i2
     /\ customFields' = f2
     /\ hasLoaded' = hl
     /\ dirty' = IF effectRuns THEN TRUE ELSE d
     /\ saveTimer' = IF effectRuns
                     THEN ArmTimer(clearTimeout(tm), Closure(u2, i2, f2))
                     ELSE IF depsChanged THEN clearTimeout(tm) ELSE tm
     /\ cache' = CommitCache(u2, i2, f2, effectRuns, ca)
     /\ getSessions' = IF u2 # user THEN gs \cup {u2} ELSE gs

\* ------------------------------------------------------------------ Init
Init ==
  /\ session = NoUser
  /\ user = NoUser
  /\ loading = TRUE
  /\ items = <<>>
  /\ customFields = <<>>
  /\ hasLoaded = FALSE
  /\ dirty = FALSE
  /\ saveTimer = <<>>
  /\ ticks = <<>>
  /\ saves = <<>>
  /\ loads = <<>>
  /\ getSessions = {NoUser}
  /\ cache = [u \in Users |-> Absent]
  /\ remote = [u \in Users |-> Absent]
  /\ toast = "none"
  /\ now = 1
  /\ selectedFile = <<>>
  /\ error = ""
  /\ draft = <<>>
  /\ storageFull = FALSE

\* ----------------------------------------------- load sequence (123-182)
\* the synchronous start of loadUserData(userId) created by the render of
\* user k: hydrate from the cache, then await ensureUserRow
\* (mutant) loadUserData without the ensureUserRow step
StartLoad_SkipEnsure(userId, k) ==
  [userId |-> userId, key |-> k, pc |-> "read"]

StartLoad(userId, k) ==
  [userId |-> userId, key |-> k, pc |-> "ensure"]

\* onAuthStateChange callback; its closure is the render of the current user
AuthStateChange(s) ==
  /\ session' = s
  /\ loading' = FALSE
  /\ IF s # NoUser
     THEN LET cached == readCache(cache, user)
              i2 == IF cached # <<>> THEN cached[1].inventory ELSE items
              f2 == IF cached # <<>> THEN cached[1].custom_fields
                    ELSE customFields
          IN /\ Pending < MaxPending
             /\ loads' = Append(loads, StartLoad(s, user))
             /\ Commit(s, i2, f2, cached # <<>>, FALSE, dirty, saveTimer,
                       cache, getSessions)
     ELSE /\ loads' = loads
          /\ Commit(NoUser, <<>>, <<>>, TRUE, FALSE, FALSE, saveTimer,
                    cache, getSessions)
  /\ toast' = "none"
  /\ UNCHANGED <<ticks, saves, remote, now>>
  /\ UNCHANGED <<dialog, storageFull>>

\* getSession().then(...) of the auth effect run by the render of user k
GetSessionResolve(k) ==
  /\ k \in getSessions
  /\ loading' = FALSE
  /\ IF session # NoUser
     THEN LET cached == readCache(cache, k)
              i2 == IF cached # <<>> THEN cached[1].inventory ELSE items
              f2 == IF cached # <<>> THEN cached[1].custom_fields
                    ELSE customFields
          IN /\ Pending < MaxPending
             /\ loads' = Append(loads, StartLoad(session, k))
             /\ Commit(session, i2, f2, cached # <<>>, hasLoaded, dirty,
                       saveTimer, cache, getSessions \ {k})
     ELSE /\ loads' = loads
          /\ getSessions' = getSessions \ {k}
          /\ UNCHANGED <<user, items, customFields, hasLoaded, dirty,
                         saveTimer, cache>>
  /\ toast' = "none"
  /\ UNCHANGED <<session, ticks, saves, remote, now>>
  /\ UNCHANGED <<dialog, storageFull>>

\* (mutant) ensureUserRow as a plain upsert, without ignoreDuplicates
ensureUserRow_Overwrite(re, userId) == Put(re, userId, EmptyRow)

\* ensureUserRow: upsert of an empty row with ignoreDuplicates
ensureUserRow(re, userId) ==
  IF re[userId].present THEN re ELSE Put(re, userId, EmptyRow)

\* ensureUserRow resolves
EnsureRowDone(n) ==
  /\ n \in 1..Len(loads)
  /\ loads[n].pc = "ensure"
  /\ remote' = ensureUserRow(remote, loads[n].userId)
  /\ loads' = [loads EXCEPT ![n].pc = "read"]
  /\ toast' = "none"
  /\ UNCHANGED <<session, user, loading, items, customFields, hasLoaded,
                 dirty, saveTimer, ticks, saves, getSessions, cache, now>>
  /\ UNCHANGED <<dialog, storageFull>>

\* ensureUserRow or loadInventoryData throws: the catch block of loadUserData
LoadFail(n) ==
  /\ n \in 1..Len(loads)
  /\ loads' = RemoveAt(loads, n)
  /\ toast' = "LoadFailed"
  /\ UNCHANGED <<session, user, loading, items, customFields, hasLoaded,
                 dirty, saveTimer, ticks, saves, getSessions, cache, remote,
                 now>>
  /\ UNCHANGED <<dialog, storageFull>>

\* loadInventoryData: the row of userId, or the empty result when absent
loadInventoryData(userId) ==
  IF remote[userId].present THEN remote[userId] ELSE EmptyRow

\* loadInventoryData resolves: steps 3 and 4 of loadUserData, then the render
LoadDone(n) ==
  /\ n \in 1..Len(loads)
  /\ loads[n].pc = "read"
  /\ LET r == loadInventoryData(loads[n].userId)
     IN Commit(user, r.inventory, r.custom_fields, TRUE, TRUE, FALSE,
               saveTimer,
               writeCache(cache, loads[n].key, r.inventory, r.custom_fields),
               getSessions)
  /\ loads' = RemoveAt(loads, n)
  /\ toast' = "none"
  /\ UNCHANGED <<session, loading, ticks, saves, remote, now>>
  /\ UNCHANGED <<dialog, storageFull>>

\* --------------------------------------------------- mutations (268-392)
\* the handlers are reachable only from the inventory screen
ScreenShown == ~loading /\ user # NoUser

\* the render of the current state, whose callbacks the handlers are
Current == Closure(user, items, customFields)

\* a "key" mutation: setItems / setCustomFields and
\* setTimeout(() => saveNow(reason), 0) with the handler's own saveNow
\* t is the failure toast raised by the handler, "none" when it raises none
KeyMutationToast(i2, f2, t) ==
  /\ Pending < MaxPending
  /\ ticks' = Append(ticks, Current)
  /\ Commit(user, i2, f2, TRUE, hasLoaded, dirty, saveTimer, cache,
            getSessions)
  /\ toast' = t
  /\ UNCHANGED <<session, loading, saves, loads, remote>>

KeyMutation(i2, f2) == KeyMutationToast(i2, f2, "none")

\* a debounced mutation: setItems, then scheduleSave(250) of the handler's
\* render, then the render and its effects
DebouncedMutation(i2) ==
  LET runs == ScheduleSaveRuns(Current, hasLoaded)
  IN /\ Commit(user, i2, customFields, TRUE, hasLoaded,
               IF runs THEN TRUE ELSE dirty,
               IF runs THEN ArmTimer(saveTimer, Current) ELSE saveTimer,
               cache, getSessions)
     /\ toast' = "none"
     /\ UNCHANGED <<session, loading, ticks, saves, loads, remote>>

handleAddItem(data) ==
  /\ ScreenShown
  /\ now < MaxNow
  /\ now' = now + 1
  /\ KeyMutation(Append(items, NewItem(data, now)), customFields)
  /\ UNCHANGED <<dialog, storageFull>>

handleDeleteItem(id) ==
  /\ ScreenShown
  /\ KeyMutation(DeleteItem(items, id), customFields)
  /\ UNCHANGED now
  /\ UNCHANGED <<dialog, storageFull>>

handleUpdateQuantity(itemId, variantId, newQuantity) ==
  /\ ScreenShown
  /\ DebouncedMutation(UpdateQuantity(items, itemId, variantId, newQuantity))
  /\ UNCHANGED now
  /\ UNCHANGED <<dialog, storageFull>>

handleUpdateLocation(itemId, variantId, newLocation) ==
  /\ ScreenShown
  /\ DebouncedMutation(UpdateLocation(items, itemId, variantId, newLocation))
  /\ UNCHANGED now
  /\ UNCHANGED <<dialog, storageFull>>

\* --------------------------------------- variant handlers (340-372)
handleAddVariant(itemId, size) ==
  /\ ScreenShown
  /\ now < MaxVariantNow
  /\ now' = now + 1
  /\ KeyMutation(AddVariant(items, itemId, size, now), customFields)
  /\ UNCHANGED <<dialog, storageFull>>

handleDeleteVariant(itemId, variantId) ==
  /\ ScreenShown
  /\ KeyMutationToast(DeleteVariant(items, itemId, variantId), customFields,
                      IF DeleteVariantRejected(items, itemId)
                      THEN "CannotDelete" ELSE "none")
  /\ UNCHANGED now
  /\ UNCHANGED <<dialog, storageFull>>

\* ------------------------------- InventoryTable handlers (261-351)
\* text typed into the quantity box and into the new-size box
TempQuantityInputs == { <<"-", "1">>, <<>>, <<"2">> }

NewVariantSizeInputs == { <<" ">>, <<"L">> }

\* the + and - buttons; the - button is disabled at quantity 0
handleQuantityChange(itemId, variantId, delta, currentQuantity) ==
  /\ delta = -1 => currentQuantity # 0
  /\ currentQuantity + delta <= MaxQuantity
  /\ handleUpdateQuantity(itemId, variantId, currentQuantity + delta)

finishEditingQuantity(itemId, variantId, tempQuantity) ==
  handleUpdateQuantity(itemId, variantId, parseIntOr0(tempQuantity))

finishAddingVariant(itemId, newVariantSize) ==
  IF Trim(newVariantSize) # <<>>
  THEN handleAddVariant(itemId, Trim(newVariantSize))
  ELSE ScreenShown /\ UNCHANGED vars

\* ------------------------------------- CSV import dialog (363-486)
\* the lines of the files offered to the dialog
\* a quoted list of sizes
Row1 ==
  <<"A", "1", ",", "S", "h", "i", "r", "t", ",", "\"", "M", ",", "L",
   "\"", ",", "t", "r", "u", "e", ",", "1", "0", ",", "R", "1", ",">>

\* a second row of the SKU
Row2 ==
  <<"A", "1", ",", "S", "h", "i", "r", "t", ",", "X", "L", ",", "f",
   "a", "l", "s", "e", ",", "0", ",", "R", "2", ",">>

\* the SKU again: other title, image, "1", no number
Row3 ==
  <<"A", "1", ",", "T", "o", "p", ",", "S", ",", "1", ",", "x", ",",
   "R", "3", ",", "u">>

\* a quoted title, upper case, a negative quantity
Row4 ==
  <<"B", "2", ",", "\"", "a", ",", "b", "\"", ",", "M", ",", "T", "R",
   "U", "E", ",", "-", "2", ",", "R", "4", ",">>

\* an empty SIZE field
Row5 ==
  <<"B", "2", ",", "C", "a", "p", ",", ",", "t", "r", "u", "e", ",",
   "1", ",", "R", "5", ",">>

\* four fields
Row6 ==
  <<"A", "1", ",", "S", "h", "i", "r", "t", ",", "M", ",", "t", "r",
   "u", "e">>

BlankLine == <<" ">>

CsvLines == {CsvHeader, BlankLine, Row1, Row2, Row3, Row4, Row5, Row6}

\* the files: up to MaxLines lines joined by "\n"
CsvFiles ==
  { Join(ls, <<"\n">>) :
      ls \in UNION { [1..n -> CsvLines] : n \in 0..MaxLines } }

handleFileSelect(text) ==
  /\ ScreenShown
  /\ UNCHANGED <<draft, storageFull>>
  /\ selectedFile' = <<text>>
  /\ error' = ""
  /\ toast' = "none"
  /\ UNCHANGED <<session, user, loading, items, customFields, hasLoaded,
                 dirty, saveTimer, ticks, saves, loads, getSessions, cache,
                 remote, now>>

\* handleCSVImport (part_001 382-392): item ids are
\* `${Date.now()}-${index}-${random}`, the tuple <<now, index, r>>; an
\* imported item has no customFields, written <<>>
\* (mutant) the imported items are put before the items held
handleCSVImport_Prepend(importedItems) ==
  LET r0 == CountVariants(importedItems)
      newItems == [k \in 1..Len(importedItems) |->
                     [id |-> <<now, k - 1, r0 + k>>,
                      sku |-> importedItems[k].sku,
                      title |-> importedItems[k].title,
                      imageUrl |-> importedItems[k].imageUrl,
                      variants |-> importedItems[k].variants,
                      customFields |-> <<>>]]
  IN /\ now < MaxVariantNow
     /\ now' = now + 1
     /\ KeyMutation(newItems \o items, customFields)

handleCSVImport(importedItems) ==
  LET r0 == CountVariants(importedItems)
      newItems == [k \in 1..Len(importedItems) |->
                     [id |-> <<now, k - 1, r0 + k>>,
                      sku |-> importedItems[k].sku,
                      title |-> importedItems[k].title,
                      imageUrl |-> importedItems[k].imageUrl,
                      variants |-> importedItems[k].variants,
                      customFields |-> <<>>]]
  IN /\ now < MaxVariantNow
     /\ now' = now + 1
     /\ KeyMutation(items \o newItems, customFields)

\* the import is refused: setError, nothing else changes
ImportRefused(message) ==
  /\ error' = message
  /\ toast' = "none"
  /\ UNCHANGED <<session, user, loading, items, customFields, hasLoaded,
                 dirty, saveTimer, ticks, saves, loads, getSessions, cache,
                 remote, now, selectedFile>>

\* handleImport without the check of items.length
handleImport_NoEmptyCheck ==
  /\ ScreenShown
  /\ UNCHANGED <<draft, storageFull>>
  /\ IF selectedFile = <<>> THEN ImportRefused("NoFile")
     ELSE LET r == parseCSV(selectedFile[1], now)
          IN IF r.error # "" THEN ImportRefused(r.error)
             ELSE /\ handleCSVImport(r.items)
                  /\ selectedFile' = <<>>
                  /\ error' = ""

handleImport ==
  /\ ScreenShown
  /\ UNCHANGED <<draft, storageFull>>
  /\ IF selectedFile = <<>> THEN ImportRefused("NoFile")
     ELSE LET r == parseCSV(selectedFile[1], now)
          IN IF r.error # "" THEN ImportRefused(r.error)
             ELSE IF r.items = <<>> THEN ImportRefused("NoData")
             ELSE /\ handleCSVImport(r.items)
                  /\ selectedFile' = <<>>
                  /\ error' = ""

\* handleClose: the dialog is closed without an import
handleClose ==
  /\ ScreenShown
  /\ UNCHANGED <<draft, storageFull>>
  /\ selectedFile' = <<>>
  /\ error' = ""
  /\ toast' = "none"
  /\ UNCHANGED <<session, user, loading, items, customFields, hasLoaded,
                 dirty, saveTimer, ticks, saves, loads, getSessions, cache,
                 remote, now>>

\* handleExportCSV: refused with a toast when there is no item; the file
\* offered for download is exportCSV(items)
handleExportCSV ==
  /\ ScreenShown
  /\ toast' = IF items = <<>> THEN "NoData" ELSE "none"
  /\ UNCHANGED <<session, user, loading, items, customFields, hasLoaded,
                 dirty, saveTimer, ticks, saves, loads, getSessions, cache,
                 remote, now>>
  /\ UNCHANGED <<dialog, storageFull>>

\* ------------------------------ CustomFieldsManager (35-81, App 588-600)
\* String.prototype.replace(/\s+/g, '_'): every run of white space becomes
\* one underscore
RECURSIVE ReplaceSpaces(_)
ReplaceSpaces(t) ==
  IF t = <<>> THEN <<>>
  ELSE IF IsSpace(Head(t))
       THEN <<"_">> \o ReplaceSpaces(TrimStart(t))
       ELSE <<Head(t)>> \o ReplaceSpaces(Tail(t))

\* const fieldId = newFieldName.toLowerCase().replace(/\s+/g, '_')
FieldId(newFieldName) == ReplaceSpaces(toLowerCase(newFieldName))

\* (mutant) the duplicate check compares the labels with the derived id
FieldExists_ByLabel(fields, fieldId) ==
  \E k \in 1..Len(fields) : fields[k].label = fieldId

\* fields.some(f => f.id === fieldId)
FieldExists(fields, fieldId) ==
  \E k \in 1..Len(fields) : fields[k].id = fieldId

\* names typed into the new-field box: blank, "C", "c", "c "
NewFieldNameInputs == { <<" ">>, <<"C">>, <<"c">>, <<"c", " ">> }

NewFieldTypeInputs == {"text", "number"}

\* the handler returns after a destructive toast: nothing else changes
FieldRefused(message) ==
  /\ toast' = message
  /\ UNCHANGED <<session, user, loading, items, customFields, hasLoaded,
                 dirty, saveTimer, ticks, saves, loads, getSessions, cache,
                 remote>>

\* handleAddField, with onUpdateFields of App: setCustomFields(next) and
\* setTimeout(() => saveNow("customFieldsUpdate"), 0)
handleAddField(newFieldName, newFieldType) ==
  /\ ScreenShown
  /\ IF Trim(newFieldName) = <<>> THEN FieldRefused("FieldNameEmpty")
     ELSE IF FieldExists(customFields, FieldId(newFieldName))
          THEN FieldRefused("FieldExists")
     ELSE KeyMutation(items,
                      Append(customFields,
                             [id |-> FieldId(newFieldName),
                              label |-> Trim(newFieldName),
                              type |-> newFieldType]))
  /\ UNCHANGED now
  /\ UNCHANGED <<dialog, storageFull>>

\* handleDeleteField: fields.filter(f => f.id !== fieldId)
handleDeleteField(fieldId) ==
  /\ ScreenShown
  /\ KeyMutation(items, SelectSeq(customFields, LAMBDA f : f.id # fieldId))
  /\ UNCHANGED now
  /\ UNCHANGED <<dialog, storageFull>>

\* --------------------- add-item row and form (part_000 15-99, form 30-153)
\* The fields of the open QuickAddRow (kind "row": the quantity is the text
\* of the input) or InventoryForm (kind "form": the quantity is a number).
RowSize(size, quantity, location) ==
  [size |-> size, quantity |-> quantity, location |-> location]

QuickDraft(sku, title, sizes) ==
  [kind |-> "row", sku |-> sku, title |-> title, sizes |-> sizes]

\* what the user has typed into the row: the entry that gives QuickAddData,
\* no SKU, a blank SKU, no title, a blank size, a blank size before a
\* good one, the quantity -1
QuickDrafts ==
  { QuickDraft(<<"A", "1">>, <<"S">>, << RowSize(<<"M">>, <<"0">>, <<"R">>) >>),
    QuickDraft(<<>>, <<"S">>, << RowSize(<<"M">>, <<"0">>, <<"R">>) >>),
    QuickDraft(<<" ">>, <<"S">>, << RowSize(<<"M">>, <<"0">>, <<"R">>) >>),
    QuickDraft(<<"A", "1">>, <<>>, << RowSize(<<"M">>, <<"0">>, <<"R">>) >>),
    QuickDraft(<<"A", "1">>, <<"S">>, << RowSize(<<" ">>, <<"0">>, <<>>) >>),
    QuickDraft(<<"A", "1">>, <<"S">>, << RowSize(<<>>, <<"0">>, <<>>),
                                        RowSize(<<"M">>, <<"0">>, <<"R">>) >>),
    QuickDraft(<<"A", "1">>, <<"S">>, << RowSize(<<"M">>, <<"-", "1">>, <<"R">>) >>) }

FormVariant(size, inStock, quantity, location) ==
  [size |-> size, inStock |-> inStock, quantity |-> quantity,
   location |-> location]

FormDraft(sku, title, variants) ==
  [kind |-> "form", sku |-> sku, title |-> title, sizes |-> variants]

\* what the user has typed into the form: a complete entry, no SKU, a blank
\* SKU, no title, the untouched size, a blank size, the quantity -1, a
\* quantity without a location
FormDrafts ==
  { FormDraft(<<"A", "1">>, <<"S">>, << FormVariant(<<"M">>, TRUE, 0, <<>>) >>),
    FormDraft(<<>>, <<"S">>, << FormVariant(<<"M">>, TRUE, 0, <<>>) >>),
    FormDraft(<<" ">>, <<"S">>, << FormVariant(<<"M">>, TRUE, 0, <<>>) >>),
    FormDraft(<<"A", "1">>, <<>>, << FormVariant(<<"M">>, TRUE, 0, <<>>) >>),
    FormDraft(<<"A", "1">>, <<"S">>, << FormVariant(<<>>, TRUE, 0, <<>>) >>),
    FormDraft(<<"A", "1">>, <<"S">>, << FormVariant(<<" ">>, TRUE, 0, <<>>) >>),
    FormDraft(<<"A", "1">>, <<"S">>, << FormVariant(<<"M">>, TRUE, -1, <<>>) >>),
    FormDraft(<<"A", "1">>, <<"S">>, << FormVariant(<<"M">>, TRUE, 1, <<>>) >>) }

\* the row or the form is opened and filled in
FillDraft(d) ==
  /\ ScreenShown
  /\ draft = <<>>
  /\ draft' = <<d>>
  /\ toast' = "none"
  /\ UNCHANGED <<session, user, loading, items, customFields, hasLoaded,
                 dirty, saveTimer, ticks, saves, loads, getSessions, cache,
                 remote, now, selectedFile, error, storageFull>>

\* onCancel of the row, onClose of the form
CancelDraft ==
  /\ ScreenShown
  /\ draft # <<>>
  /\ draft' = <<>>
  /\ toast' = "none"
  /\ UNCHANGED <<session, user, loading, items, customFields, hasLoaded,
                 dirty, saveTimer, ticks, saves, loads, getSessions, cache,
                 remote, now, selectedFile, error, storageFull>>

\* handleAddItem called by the row or the form, which then closes
SubmitData(data) ==
  /\ now < MaxNow
  /\ now' = now + 1
  /\ KeyMutation(Append(items, NewItem(data, now)), customFields)
  /\ draft' = <<>>
  /\ UNCHANGED <<selectedFile, error, storageFull>>

\* a submission that returns before onAdd / onSubmit
SubmitRefused(message) ==
  /\ toast' = message
  /\ UNCHANGED <<session, user, loading, items, customFields, hasLoaded,
                 dirty, saveTimer, ticks, saves, loads, getSessions, cache,
                 remote, now, selectedFile, error, draft, storageFull>>

\* (mutant) the sizes without the filter
ValidSizes_All(sizes) == sizes

\* sizes.filter(s => s.size.trim())
ValidSizes(sizes) == SelectSeq(sizes, LAMBDA x : Trim(x.size) # <<>>)

\* QuickAddRow.handleSubmit up to onAdd: the validation toast, or the form
\* data with the ids `temp-${index}`
QuickFormData(d) ==
  LET validSizes == ValidSizes(d.sizes)
  IN IF Trim(d.sku) = <<>> THEN [refused |-> "SkuEmpty"]
     ELSE IF Trim(d.title) = <<>> THEN [refused |-> "TitleEmpty"]
     ELSE IF validSizes = <<>> THEN [refused |-> "NoSize"]
     ELSE [refused |-> "",
           data |-> [sku |-> Trim(d.sku), title |-> Trim(d.title),
                     imageUrl |-> <<>>,
                     variants |->
                       [j \in 1..Len(validSizes) |->
                          [id |-> <<0, j - 1>>,
                           size |-> Trim(validSizes[j].size),
                           quantity |-> parseIntOr0(validSizes[j].quantity),
                           inStock |-> parseIntOr0(validSizes[j].quantity) > 0,
                           location |-> Trim(validSizes[j].location)]],
                     customFields |-> <<>>]]

\* QuickAddRow.handleSubmit, with handleQuickAdd of the table
QuickAddRow_handleSubmit ==
  /\ ScreenShown
  /\ draft # <<>>
  /\ draft[1].kind = "row"
  /\ LET r == QuickFormData(draft[1])
     IN IF r.refused # "" THEN SubmitRefused(r.refused)
        ELSE SubmitData(r.data)

\* the constraint validation of the form's inputs, which precedes the
\* submit event: required SKU, title and sizes, min="0" on the quantity,
\* required location when the quantity is positive
FormValid(d) ==
  /\ d.sku # <<>>
  /\ d.title # <<>>
  /\ \A j \in 1..Len(d.sizes) :
        /\ d.sizes[j].size # <<>>
        /\ d.sizes[j].quantity >= 0
        /\ d.sizes[j].quantity > 0 => d.sizes[j].location # <<>>

\* InventoryForm.handleSubmit for a new item: the variant ids are
\* `${Date.now()}-${index}`; nothing is trimmed
InventoryForm_handleSubmit ==
  /\ ScreenShown
  /\ draft # <<>>
  /\ draft[1].kind = "form"
  /\ LET d == draft[1]
         validVariants == ValidSizes(d.sizes)
     IN IF ~FormValid(d) \/ validVariants = <<>>
        THEN SubmitRefused("none")
        ELSE SubmitData([sku |-> d.sku, title |-> d.title, imageUrl |-> <<>>,
                         variants |->
                           [j \in 1..Len(validVariants) |->
                              [id |-> <<now, j - 1>>,
                               size |-> validVariants[j].size,
                               inStock |-> validVariants[j].inStock,
                               quantity |-> validVariants[j].quantity,
                               location |-> validVariants[j].location]],
                         customFields |-> <<>>])

\* ------------------------------------------- the browser storage
\* the storage runs out of quota: from now on setItem throws
StorageFills ==
  /\ ~storageFull
  /\ storageFull' = TRUE
  /\ toast' = "none"
  /\ UNCHANGED <<session, user, loading, items, customFields, hasLoaded,
                 dirty, saveTimer, ticks, saves, loads, getSessions, cache,
                 remote, now, selectedFile, error, draft>>

\* the value stored under the key of u is replaced by text that is no JSON
CacheCorrupted(u) ==
  /\ cache[u] # Corrupt
  /\ cache' = Put(cache, u, Corrupt)
  /\ toast' = "none"
  /\ UNCHANGED <<session, user, loading, items, customFields, hasLoaded,
                 dirty, saveTimer, ticks, saves, loads, getSessions, remote,
                 now, selectedFile, error, draft, storageFull>>

\* ------------------------------------------------- timers and signals
\* a setTimeout(..., 0) callback runs
TickFire ==
  /\ ticks # <<>>
  /\ ticks' = Tail(ticks)
  /\ saveNow(Head(ticks), saveTimer)
  /\ toast' = "none"
  /\ UNCHANGED <<session, user, loading, items, customFields, hasLoaded,
                 dirty, loads, getSessions, cache, remote, now>>
  /\ UNCHANGED <<dialog, storageFull>>

\* the debounce timer fires: saveNow("debounced") of the arming render
TimerFire ==
  /\ saveTimer # <<>>
  /\ Pending < MaxPending
  /\ saveNow(saveTimer[1], Tail(saveTimer))
  /\ toast' = "none"
  /\ UNCHANGED <<session, user, loading, items, customFields, hasLoaded,
                 dirty, ticks, loads, getSessions, cache, remote, now>>
  /\ UNCHANGED <<dialog, storageFull>>

\* visibilitychange to hidden, or beforeunload: saveNow of the current render
HostSignal ==
  /\ Pending < MaxPending
  /\ saveNow(Current, saveTimer)
  /\ toast' = "none"
  /\ UNCHANGED <<session, user, loading, items, customFields, hasLoaded,
                 dirty, ticks, loads, getSessions, cache, remote, now>>
  /\ UNCHANGED <<dialog, storageFull>>

\* ----------------------------------------------- save completion (92-105)
\* saveInventoryData resolves: the row is overwritten, dirtyRef is cleared
SaveDone(n) ==
  /\ n \in 1..Len(saves)
  /\ remote' = Put(remote, saves[n].user,
                   Snapshot(saves[n].items, saves[n].customFields))
  /\ dirty' = FALSE
  /\ saves' = RemoveAt(saves, n)
  /\ toast' = "none"
  /\ UNCHANGED <<session, user, loading, items, customFields, hasLoaded,
                 saveTimer, ticks, loads, getSessions, cache, now>>
  /\ UNCHANGED <<dialog, storageFull>>

\* saveInventoryData throws: the catch block of saveNow
SaveFail(n) ==
  /\ n \in 1..Len(saves)
  /\ saves' = RemoveAt(saves, n)
  /\ toast' = "SaveFailed"
  /\ UNCHANGED <<session, user, loading, items, customFields, hasLoaded,
                 dirty, saveTimer, ticks, loads, getSessions, cache, remote,
                 now>>
  /\ UNCHANGED <<dialog, storageFull>>

\* ----------------------------------------------------------------- Next
Next ==
  \/ \E s \in MainUsers \cup {NoUser} : AuthStateChange(s)
  \/ \E k \in MainUsers \cup {NoUser} : GetSessionResolve(k)
  \/ \E n \in 1..Len(loads) : EnsureRowDone(n)
  \/ \E n \in 1..Len(loads) : LoadFail(n)
  \/ \E n \in 1..Len(loads) : LoadDone(n)
  \/ \E data \in FormInputs : handleAddItem(data)
  \/ \E k \in 1..Len(items) : handleDeleteItem(items[k].id)
  \/ \E k \in 1..Len(items) : \E q \in QuantityInputs :
        handleUpdateQuantity(items[k].id, items[k].variants[1].id, q)
  \/ TickFire
  \/ TimerFire
  \/ HostSignal
  \/ \E n \in 1..Len(saves) : SaveDone(n)
  \/ \E n \in 1..Len(saves) : SaveFail(n)

Spec == Init /\ [][Next]_vars

\* ------------------------------------------------ record operations
\* The record-level handlers, run from sign-in on while the load is in
\* flight (the handlers do not depend on the loaded flag).
NextRecords ==
  \/ \E s \in MainUsers : AuthStateChange(s)
  \/ \E data \in FormInputs : handleAddItem(data)
  \/ \E k \in 1..Len(items) : \E size \in NewVariantSizeInputs :
        finishAddingVariant(items[k].id, size)
  \/ \E k \in 1..Len(items) : \E j \in 1..Len(items[k].variants) :
        handleDeleteVariant(items[k].id, items[k].variants[j].id)
  \/ \E k \in 1..Len(items) : \E j \in 1..Len(items[k].variants) :
        \E delta \in {-1, 1} :
          handleQuantityChange(items[k].id, items[k].variants[j].id, delta,
                               items[k].variants[j].quantity)
  \/ \E k \in 1..Len(items) : \E j \in 1..Len(items[k].variants) :
        \E t \in TempQuantityInputs :
          finishEditingQuantity(items[k].id, items[k].variants[j].id, t)
  \/ TickFire

SpecRecords == Init /\ [][NextRecords]_vars

\* ------------------------------------------------------- CSV import
\* The import dialog, run from sign-in on while the load is in flight; a
\* file is chosen in the freshly opened dialog while no imported item is
\* held.
NoImportedItem == \A k \in 1..Len(items) : Len(items[k].id) = 1

FreshDialog == selectedFile = <<>> /\ error = ""

NextCsv ==
  \/ \E s \in MainUsers : AuthStateChange(s)
  \/ \E data \in FormInputs : handleAddItem(data)
  \/ /\ NoImportedItem /\ FreshDialog
     /\ \E text \in CsvFiles : handleFileSelect(text)
  \/ handleImport
  \/ handleClose
  \/ handleExportCSV
  \/ TickFire

SpecCsv == Init /\ [][NextCsv]_vars

\* Refused imports in the loaded state: one sign-in, the load completes,
\* items are added with the form, and the dialog is given short files made
\* of the header, a blank line, a short row and one good row.
ErrorLines == {CsvHeader, BlankLine, Row6, Row2}

ErrorFiles ==
  { Join(ls, <<"\n">>) :
      ls \in UNION { [1..n -> ErrorLines] : n \in 0..MaxErrorLines } }

NextImport ==
  \/ /\ user = NoUser
     /\ \E s \in MainUsers : AuthStateChange(s)
  \/ \E n \in 1..Len(loads) : EnsureRowDone(n)
  \/ \E n \in 1..Len(loads) : LoadDone(n)
  \/ \E data \in FormInputs : handleAddItem(data)
  \/ /\ NoImportedItem /\ FreshDialog
     /\ \E text \in ErrorFiles : handleFileSelect(text)
  \/ handleImport
  \/ handleClose
  \/ TickFire
  \/ \E n \in 1..Len(saves) : SaveDone(n)

SpecImport == Init /\ [][NextImport]_vars

\* ---------------------------------------------------- custom fields
\* The custom-field dialog, run from sign-in on while the load is in flight.
NextFields ==
  \/ \E s \in MainUsers : AuthStateChange(s)
  \/ \E name \in NewFieldNameInputs : \E type \in NewFieldTypeInputs :
        handleAddField(name, type)
  \/ \E k \in 1..Len(customFields) : handleDeleteField(customFields[k].id)
  \/ TickFire

SpecFields == Init /\ [][NextFields]_vars

\* ------------------------------------------------------ item creation
\* The add-item row and form, run from sign-in on while the load is in
\* flight.
NextForms ==
  \/ \E s \in MainUsers : AuthStateChange(s)
  \/ \E d \in QuickDrafts \cup FormDrafts : FillDraft(d)
  \/ CancelDraft
  \/ QuickAddRow_handleSubmit
  \/ InventoryForm_handleSubmit
  \/ TickFire

SpecForms == Init /\ [][NextForms]_vars

\* ------------------------------------------------- unreliable cache
\* Sign-in, load, add-item and the saves, with a browser storage that can
\* run out of quota and whose values can be damaged.
NextCache ==
  \/ \E s \in MainUsers : AuthStateChange(s)
  \/ \E n \in 1..Len(loads) : EnsureRowDone(n)
  \/ \E n \in 1..Len(loads) : LoadDone(n)
  \/ \E data \in FormInputs : handleAddItem(data)
  \/ StorageFills
  \/ \E u \in MainUsers : CacheCorrupted(u)
  \/ TickFire
  \/ TimerFire
  \/ \E n \in 1..Len(saves) : SaveDone(n)

SpecCache == Init /\ [][NextCache]_vars

\* ------------------------------------------------ imported field values
\* Files of the header and one data row A1,Shirt,M,<IN STOCK>,<QUANTITY>,R1,
\* whose IN STOCK and QUANTITY cells range over the texts below.
InStockTexts ==
  { <<"t", "r", "u", "e">>, <<"T", "R", "U", "E">>, <<"T", "r", "u", "e">>,
    <<"1">>, <<"f", "a", "l", "s", "e">>, <<"0">>, <<"y", "e", "s">>, <<>> }

QuantityTexts ==
  { <<"1", "0">>, <<"0">>, <<"7">>, <<"-", "2">>, <<"x">>, <<"3", "x">>,
    <<>> }

FieldRow(inStockStr, quantityStr) ==
  <<"A", "1", ",", "S", "h", "i", "r", "t", ",", "M", ",">>
    \o inStockStr \o <<",">> \o quantityStr \o <<",", "R", "1", ",">>

FieldFiles ==
  { Join(<<CsvHeader, FieldRow(s, q)>>, <<"\n">>) :
      s \in InStockTexts, q \in QuantityTexts }

NextParse ==
  \/ /\ user = NoUser
     /\ \E s \in MainUsers : AuthStateChange(s)
  \/ \E data \in FormInputs : handleAddItem(data)
  \/ /\ NoImportedItem /\ FreshDialog
     /\ \E text \in FieldFiles : handleFileSelect(text)
  \/ handleImport
  \/ handleClose
  \/ TickFire

SpecParse == Init /\ [][NextParse]_vars

\* ------------------------------------------------ host lifecycle flush
\* Sign-in, load, mutations and host signals within the debounce delay: the
\* debounce timer does not fire.
NextFlush ==
  \/ \E s \in MainUsers \cup {NoUser} : AuthStateChange(s)
  \/ \E n \in 1..Len(loads) : EnsureRowDone(n)
  \/ \E n \in 1..Len(loads) : LoadDone(n)
  \/ \E data \in FormInputs : handleAddItem(data)
  \/ \E k \in 1..Len(items) : \E q \in QuantityInputs :
        handleUpdateQuantity(items[k].id, items[k].variants[1].id, q)
  \/ TickFire
  \/ HostSignal
  \/ \E n \in 1..Len(saves) : SaveDone(n)

SpecFlush == Init /\ [][NextFlush]_vars

\* ------------------------------------------------------ eventual save
\* Every save succeeds. The browser runs every queued setTimeout callback
\* and every armed timer, and every request is answered: the callbacks,
\* the timer and the completions are fair; sign-in and mutations are not.
NextLive ==
  \/ \E s \in MainUsers : AuthStateChange(s)
  \/ \E n \in 1..Len(loads) : EnsureRowDone(n)
  \/ \E n \in 1..Len(loads) : LoadDone(n)
  \/ \E data \in FormInputs : handleAddItem(data)
  \/ \E k \in 1..Len(items) : \E q \in QuantityInputs :
        handleUpdateQuantity(items[k].id, items[k].variants[1].id, q)
  \/ TickFire
  \/ TimerFire
  \/ \E n \in 1..Len(saves) : SaveDone(n)

SpecLive ==
  /\ Init /\ [][NextLive]_vars
  /\ WF_vars(\E n \in 1..Len(loads) : EnsureRowDone(n))
  /\ WF_vars(\E n \in 1..Len(loads) : LoadDone(n))
  /\ WF_vars(TickFire)
  /\ SF_vars(TimerFire)
  /\ WF_vars(\E n \in 1..Len(saves) : SaveDone(n))

\* ------------------------------------------------ variant-level updates
\* One sign-in; one item is added with the row, an item with two variants
\* is imported; quantity and location updates name the ids of the items
\* and variants held and ids that are not held.
LocalFiles == { Join(<<CsvHeader, Row1>>, <<"\n">>) }

UnknownId == <<9>>

HeldItemIds == { items[k].id : k \in 1..Len(items) }

HeldVariantIds ==
  UNION { { items[k].variants[j].id : j \in 1..Len(items[k].variants) } :
            k \in 1..Len(items) }

LocalQuantityInputs == {-1, 2}

LocationInputs == { <<"Z">> }

NextLocal ==
  \/ /\ user = NoUser
     /\ \E s \in MainUsers : AuthStateChange(s)
  \/ /\ items = <<>>
     /\ \E data \in FormInputs : handleAddItem(data)
  \/ /\ NoImportedItem /\ FreshDialog
     /\ \E text \in LocalFiles : handleFileSelect(text)
  \/ handleImport
  \/ \E itemId \in HeldItemIds \cup {UnknownId} :
       \E variantId \in HeldVariantIds \cup {UnknownId} :
         \E q \in LocalQuantityInputs :
           handleUpdateQuantity(itemId, variantId, q)
  \/ \E itemId \in HeldItemIds \cup {UnknownId} :
       \E variantId \in HeldVariantIds \cup {UnknownId} :
         \E l \in LocationInputs :
           handleUpdateLocation(itemId, variantId, l)
  \/ TickFire

SpecLocal == Init /\ [][NextLocal]_vars

\* --------------------------------------------------- identity isolation
\* Both identities sign in and out; what an identity adds carries a SKU of
\* its own, so that a snapshot tells whose data it holds.
OwnSku(u) == IF u = "u1" THEN <<"A", "1">> ELSE <<"B", "2">>

OwnData(u) == [QuickAddData EXCEPT !.sku = OwnSku(u)]

NextIsolation ==
  \/ \E s \in Users \cup {NoUser} : s # session /\ AuthStateChange(s)
  \/ \E n \in 1..Len(loads) : EnsureRowDone(n)
  \/ \E n \in 1..Len(loads) : LoadDone(n)
  \/ user # NoUser /\ handleAddItem(OwnData(user))
  \/ TickFire
  \/ TimerFire
  \/ \E n \in 1..Len(saves) : SaveDone(n)

SpecIsolation == Init /\ [][NextIsolation]_vars

\* ===================================================================
\* Properties
\* ===================================================================
\* the in-memory snapshot
Memory == Snapshot(items, customFields)

\* a step in which the load n resolves successfully / ends in the catch
LoadSucceeds(n) == loads' = RemoveAt(loads, n) /\ toast' = "none"
LoadFails(n) == loads' = RemoveAt(loads, n) /\ toast' = "LoadFailed"

\* a step in which the save n resolves successfully
SaveSucceeds(n) == saves' = RemoveAt(saves, n) /\ toast' = "none"

\* a step that starts one saveInventoryData call carrying closure c
SaveStarted(c) == saves' = Append(saves, c)

\* C1 (dirty flag meaning): signed in, loaded, not dirty and no save in
\* flight imply that the remote row equals the in-memory snapshot.
C1_CleanMeansPersisted ==
  (user # NoUser /\ hasLoaded /\ ~dirty /\ saves = <<>>)
    => remote[user] = Memory

\* C2 (key-mutation flush): when the next-tick callback of a key mutation
\* runs while loaded and dirty, it cancels the debounce timer and starts a
\* save that carries the current (post-mutation) in-memory snapshot.
C2_KeyFlushCarriesCurrent ==
  [][(ticks # <<>> /\ ticks' = Tail(ticks)
        /\ user # NoUser /\ hasLoaded /\ dirty)
      => (saveTimer' = <<>> /\ SaveStarted(Current))]_vars

\* C3 (debounce coalescing): when the debounce timer armed by a burst of
\* mutations (the in-memory state differs from the remote row) fires while
\* loaded, exactly one save is started and it carries the in-memory state
\* after the last mutation.
C3_TimerFireSavesLatest ==
  [][(saveTimer # <<>> /\ saveTimer' = <<>> /\ user # NoUser /\ hasLoaded
        /\ remote[user] # Memory
        /\ UNCHANGED <<session, user, items, customFields, hasLoaded, ticks,
                       loads, getSessions, cache, remote>>)
      => SaveStarted(Current)]_vars

\* C4 (no overlapping upserts): at most one saveRow call per identity is
\* in flight at any time.
C4_NoOverlappingSaves ==
  \A m, n \in 1..Len(saves) : m # n => saves[m].user # saves[n].user

\* C5 (follow-up save): when a save completes successfully while the
\* debounce timer armed by a later mutation is pending, the completion keeps
\* the state dirty and the timer armed, so that the timer's fire issues the
\* follow-up save carrying the later mutation.
C5_CompletionKeepsFollowUp ==
  [][\A n \in 1..Len(saves) :
       (SaveSucceeds(n) /\ user = saves[n].user /\ hasLoaded /\ dirty
          /\ saveTimer # <<>> /\ saveTimer[1] # saves[n])
        => (dirty' /\ saveTimer' = saveTimer)]_vars

\* C6 (pre-load gating): a step taken while loaded is and stays false
\* starts no save, does not set dirty and arms no debounce timer.
C6_PreLoadGating ==
  [][(~hasLoaded /\ ~hasLoaded')
      => (/\ Len(saves') <= Len(saves)
          /\ (dirty' => dirty)
          /\ (saveTimer' # <<>> => saveTimer' = saveTimer))]_vars

\* C6 witness: a mutation was applied before any load of the identity
\* completed, and neither dirty nor a timer nor a save resulted
C6_Witness ==
  /\ user # NoUser /\ ~hasLoaded /\ ~remote[user].present
  /\ items # <<>> /\ ticks # <<>>
  /\ ~dirty /\ saveTimer = <<>> /\ saves = <<>>

\* C7 (load order and remote wins): the step that starts a load for an
\* identity whose cache entry is present hydrates the in-memory state from
\* that entry before ensureRow is awaited; when a load succeeds, the
\* in-memory state and the cache snapshot of the loaded identity equal the
\* remote read result.
C7_LoadOrderRemoteWins ==
  [][/\ Len(loads') = Len(loads) + 1
          => LET l == loads'[Len(loads')]
             IN /\ l.pc = "ensure"
                /\ cache[l.userId].present
                     => /\ items' = cache[l.userId].inventory
                        /\ customFields' = cache[l.userId].custom_fields
     /\ \A n \in 1..Len(loads) :
          LoadSucceeds(n)
           => LET r == loadInventoryData(loads[n].userId)
              IN /\ loads[n].pc = "read"
                 /\ items' = r.inventory
                 /\ customFields' = r.custom_fields
                 /\ cache'[loads[n].userId] = r]_vars

\* C8 (loaded only after a successful load): loaded becomes true only in a
\* step where a load whose ensureRow has succeeded reads the existing row;
\* a load that fails reports the error and leaves loaded, the in-memory
\* state, the cache and the remote untouched; while loaded is false no save
\* is started.
C8_LoadedOnlyAfterLoad ==
  [][/\ (~hasLoaded /\ hasLoaded')
          => \E n \in 1..Len(loads) :
               /\ LoadSucceeds(n)
               /\ loads[n].pc = "read"
               /\ remote[loads[n].userId].present
               /\ items' = remote[loads[n].userId].inventory
     /\ \A n \in 1..Len(loads) :
          (loads' = RemoveAt(loads, n) /\ ~hasLoaded')
            => /\ toast' = "LoadFailed"
               /\ ~hasLoaded
               /\ UNCHANGED <<items, customFields, cache, remote, saves>>
     /\ \A n \in 1..Len(loads) : LoadFails(n) => hasLoaded' = hasLoaded
     /\ ~hasLoaded' => Len(saves') <= Len(saves)]_vars

\* C8 witness: a load has just failed, loaded is false, and the item the
\* user added is not saved
C8_Witness ==
  /\ toast = "LoadFailed" /\ user # NoUser /\ ~hasLoaded
  /\ items # <<>> /\ saves = <<>> /\ remote[user].inventory = <<>>

\* C9 (load leaves the state clean): the step that completes a load sets
\* loaded and leaves dirty false with no debounce timer armed, so that no
\* save is started without a user mutation.
C9_LoadLeavesClean ==
  [][\A n \in 1..Len(loads) :
       LoadSucceeds(n) => (hasLoaded' /\ ~dirty' /\ saveTimer' = <<>>)]_vars

\* C10 (sign-out): the step that ends the session empties items and
\* customFields, clears loaded and dirty and leaves the cache unchanged.
C10_SignOut ==
  [][(user # NoUser /\ user' = NoUser)
      => /\ items' = <<>> /\ customFields' = <<>>
         /\ ~hasLoaded' /\ ~dirty'
         /\ cache' = cache]_vars

\* C10 witness: signed out, memory empty, the identity's cache entry still
\* holds the snapshot written before the sign-out
C10_Witness ==
  /\ user = NoUser /\ session = NoUser
  /\ items = <<>> /\ customFields = <<>> /\ ~hasLoaded /\ ~dirty
  /\ \E u \in Users : cache[u].present /\ cache[u].inventory # <<>>

\* a step in which the save n ends in the catch block of saveNow
SaveFails(n) == saves' = RemoveAt(saves, n) /\ toast' = "SaveFailed"

\* C11 (save failure): when the save of the signed-in, loaded identity fails
\* while the remote row still differs from the in-memory state, dirty is
\* true afterwards (so that the next timer fire or flush saves again), the
\* in-memory state, the cache and the timer are unchanged, the failure is
\* reported and no save is started by the failure itself.
C11_FailureKeepsDirty ==
  [][\A n \in 1..Len(saves) :
       (SaveFails(n) /\ user = saves[n].user /\ hasLoaded
          /\ remote[user] # Memory)
        => /\ dirty'
           /\ toast' = "SaveFailed"
           /\ UNCHANGED <<items, customFields, cache, remote, saveTimer,
                          ticks>>]_vars

\* a step in which the ensureUserRow call of load n resolves
EnsureSucceeds(n) ==
  loads[n].pc = "ensure" /\ loads' = [loads EXCEPT ![n].pc = "read"]

\* C12 (ensure-row idempotence): every ensureUserRow call for an identity
\* whose row exists leaves the whole table unchanged; a call for an identity
\* without a row creates the empty row and changes no other row.
C12_EnsureRowIdempotent ==
  [][\A n \in 1..Len(loads) :
       EnsureSucceeds(n)
        => LET u == loads[n].userId
           IN /\ remote[u].present => remote' = remote
              /\ ~remote[u].present => remote' = Put(remote, u, EmptyRow)]_vars

\* C12 witness: ensureUserRow has resolved for two loads of an identity
\* whose row holds a saved, non-empty inventory
C12_Witness ==
  /\ Len(loads) = 2
  /\ \A n \in 1..Len(loads) : loads[n].pc = "read" /\ loads[n].userId = user
  /\ user # NoUser /\ remote[user].inventory # <<>>

\* C13 (variant floor): every item of the in-memory inventory holds at
\* least one variant.
C13_VariantFloor ==
  \A k \in 1..Len(items) : Len(items[k].variants) >= 1

\* a step of handleDeleteVariant under SpecRecords: the only key mutation
\* that does not read Date.now()
DeleteVariantStep == ticks' = Append(ticks, Current) /\ now' = now

UpdateQuantityStep ==
  ticks' = ticks /\ loads' = loads /\ Len(items') = Len(items) /\ items # <<>>

\* C15 (quantity clamp): every variant changed by a quantity update, by
\* the +/- buttons or by typed text (negative, empty), ends with a natural
\* number as quantity and with inStock equal to (quantity > 0); nothing but
\* quantity and inStock of a variant changes.
C15_QuantityClamp ==
  [][UpdateQuantityStep
      => \A k \in 1..Len(items) :
           /\ Len(items'[k].variants) = Len(items[k].variants)
           /\ \A j \in 1..Len(items[k].variants) :
                LET v == items[k].variants[j]
                    w == items'[k].variants[j]
                IN /\ w = [v EXCEPT !.quantity = w.quantity,
                                     !.inStock = w.inStock]
                   /\ w # v => /\ w.quantity \in Nat
                               /\ w.inStock = (w.quantity > 0)]_vars

\* C15 witness: one variant was set to 2 by typed text and one was raised
\* to 1 by the + button; both are in stock
C15_Witness ==
  \E k \in 1..Len(items) :
    \E i, j \in 1..Len(items[k].variants) :
      /\ items[k].variants[i].quantity = 2 /\ items[k].variants[i].inStock
      /\ items[k].variants[j].quantity = 1 /\ items[k].variants[j].inStock

\* the (size, quantity, location, inStock) tuples of the variants held
\* under one SKU
VariantTuples(its, sku) ==
  UNION { { <<its[k].variants[j].size, its[k].variants[j].quantity,
              its[k].variants[j].location, its[k].variants[j].inStock>> :
            j \in 1..Len(its[k].variants) } :
          k \in { n \in 1..Len(its) : its[n].sku = sku } }

\* the tuples of a sequence of items, grouped by SKU
SkuTuples(its) ==
  { <<its[k].sku, VariantTuples(its, its[k].sku)>> : k \in 1..Len(its) }

\* C16 (merge round-trip): parsing the text exported from the inventory
\* gives back the same (sku, size, quantity, location, inStock) tuples
\* grouped by SKU, here for every non-empty inventory whose items all
\* hold a variant.
C16_MergeRoundTrip ==
  (items # <<>> /\ C13_VariantFloor)
    => SkuTuples(parseCSV(exportCSV(items), now).items) = SkuTuples(items)

\* a step of handleImport that hands the parsed items to handleCSVImport
ImportStep ==
  /\ selectedFile # <<>>
  /\ selectedFile' = <<>>
  /\ Len(items') > Len(items)

\* the items appended by the step
Imported == SubSeq(items', Len(items) + 1, Len(items'))

\* the data rows of a file that are not skipped, in file order
DataRows(text) ==
  LET ls == Tail(NonBlankLines(text))
      ps == SelectSeq([k \in 1..Len(ls) |-> ParseRow(ls[k])],
                      LAMBDA r : r # <<>>)
  IN [k \in 1..Len(ps) |-> ps[k][1]]

\* the rows of one SKU, in file order
RowsOf(rows, sku) == SelectSeq(rows, LAMBDA r : r.sku = sku)

\* the SKUs of the rows in first-seen order
RECURSIVE FirstSeen(_, _)
FirstSeen(rows, seen) ==
  IF rows = <<>> THEN seen
  ELSE FirstSeen(Tail(rows),
                 IF \E k \in 1..Len(seen) : seen[k] = Head(rows).sku
                 THEN seen ELSE Append(seen, Head(rows).sku))

\* a variant without its id
Plain(variants) ==
  [j \in 1..Len(variants) |->
     [size |-> variants[j].size, inStock |-> variants[j].inStock,
      quantity |-> variants[j].quantity, location |-> variants[j].location]]

\* one variant per size of each row, in row order
RECURSIVE ExpectedVariants(_)
ExpectedVariants(rows) ==
  IF rows = <<>> THEN <<>>
  ELSE [j \in 1..Len(Head(rows).sizes) |->
          [size |-> Head(rows).sizes[j], inStock |-> Head(rows).inStock,
           quantity |-> Head(rows).quantity,
           location |-> Head(rows).location]]
       \o ExpectedVariants(Tail(rows))

\* C17 (merge by SKU): an import yields one item per distinct SKU of the
\* data rows, in first-seen order; the first row of a SKU gives the title
\* and the image URL, and the variants of the rows of the SKU follow each
\* other in row order.
C17_MergeBySku ==
  [][ImportStep =>
       LET rows == DataRows(selectedFile[1])
       IN /\ [k \in 1..Len(Imported) |-> Imported[k].sku]
               = FirstSeen(rows, <<>>)
          /\ \A k, n \in 1..Len(Imported) :
                k # n => Imported[k].sku # Imported[n].sku
          /\ \A k \in 1..Len(Imported) :
                LET mine == RowsOf(rows, Imported[k].sku)
                IN /\ Imported[k].title = mine[1].title
                   /\ Imported[k].imageUrl = mine[1].imageUrl
                   /\ Plain(Imported[k].variants) = ExpectedVariants(mine)]_vars

\* an imported item A1/Shirt built from the rows A1,Shirt,"M,L",... and
\* A1,Top,S,...,u: the title and the image of the first row, the variants
\* of both
C17_Witness ==
  \E k \in 1..Len(items) :
    /\ Len(items[k].id) = 3
    /\ items[k].title = <<"S", "h", "i", "r", "t">>
    /\ items[k].imageUrl = <<>>
    /\ [j \in 1..Len(items[k].variants) |-> items[k].variants[j].size]
         = << <<"M">>, <<"L">>, <<"S">> >>

\* the positions of the commas of a line that stand outside double quotes:
\* an even number of quotes precedes them
OutsideCommas(line) ==
  { i \in 1..Len(line) :
      /\ line[i] = ","
      /\ Cardinality({ j \in 1..(i - 1) : line[j] = "\"" }) % 2 = 0 }

\* the line cut at these commas, each piece without its quotes and trimmed
FieldsOutsideQuotes(line) ==
  LET cuts == OutsideCommas(line) \cup {0, Len(line) + 1}
      Cut(n) == CHOOSE c \in cuts : Cardinality({ d \in cuts : d < c }) = n
  IN [n \in 1..(Cardinality(cuts) - 1) |->
        Trim(SelectSeq(SubSeq(line, Cut(n - 1) + 1, Cut(n) - 1),
                       LAMBDA c : c # "\""))]

\* C18 (quoted fields and size lists): an import splits every data row at
\* the commas outside double quotes only; every size of the SIZE field of
\* a row becomes a variant with the row's quantity, location and stock
\* flag; the data rows A1,Shirt,"M,L",true,10,R1, and
\* A1,Shirt,XL,false,0,R2, become one item A1/Shirt with the variants
\* M(10,R1,in stock), L(10,R1,in stock), XL(0,R2,not in stock).
C18_QuotedFields ==
  [][ImportStep =>
       LET ls == Tail(NonBlankLines(selectedFile[1]))
           rows == DataRows(selectedFile[1])
       IN /\ \A k \in 1..Len(ls) :
                Tokenize(ls[k], 1, <<>>, FALSE) = FieldsOutsideQuotes(ls[k])
          /\ \A n \in 1..Len(rows) : \A j \in 1..Len(rows[n].sizes) :
                \E k \in 1..Len(Imported) :
                  /\ Imported[k].sku = rows[n].sku
                  /\ \E v \in 1..Len(Imported[k].variants) :
                        Plain(Imported[k].variants)[v]
                          = [size |-> rows[n].sizes[j],
                             inStock |-> rows[n].inStock,
                             quantity |-> rows[n].quantity,
                             location |-> rows[n].location]
          /\ ls = <<Row1, Row2>> =>
                /\ Len(Imported) = 1
                /\ Imported[1].sku = <<"A", "1">>
                /\ Imported[1].title = <<"S", "h", "i", "r", "t">>
                /\ Plain(Imported[1].variants)
                     = << [size |-> <<"M">>, inStock |-> TRUE,
                           quantity |-> 10, location |-> <<"R", "1">>],
                          [size |-> <<"L">>, inStock |-> TRUE,
                           quantity |-> 10, location |-> <<"R", "1">>],
                          [size |-> <<"X", "L">>, inStock |-> FALSE,
                           quantity |-> 0, location |-> <<"R", "2">>] >>]_vars

\* the three variants of the two example rows have been imported
C18_Witness ==
  \E k \in 1..Len(items) :
    /\ Len(items[k].id) = 3
    /\ [j \in 1..Len(items[k].variants) |->
          <<items[k].variants[j].size, items[k].variants[j].quantity>>]
         = << << <<"M">>, 10 >>, << <<"L">>, 10 >>, << <<"X", "L">>, 0 >> >>

\* a line that resolves to fewer than 6 fields
ShortRow(line) == Len(FieldsOutsideQuotes(line)) < 6

\* the file without the short rows among its data lines
WithoutShortRows(text) ==
  LET ls == NonBlankLines(text)
  IN IF ls = <<>> THEN <<>>
     ELSE Join(<<Head(ls)>>
                 \o SelectSeq(Tail(ls), LAMBDA line : ~ShortRow(line)),
               <<"\n">>)

\* the selected file has a short row among its data lines
HasShortRow ==
  /\ selectedFile # <<>>
  /\ LET ls == NonBlankLines(selectedFile[1])
     IN ls # <<>> /\ \E k \in 2..Len(ls) : ShortRow(ls[k])

\* an item as parseCSV returns it: without the id and the custom fields
\* that handleCSVImport and the inventory add
Parsed(its) ==
  [k \in 1..Len(its) |->
     [sku |-> its[k].sku, title |-> its[k].title,
      imageUrl |-> its[k].imageUrl, variants |-> its[k].variants]]

\* C19 (short rows are skipped): when the selected file has data rows of
\* fewer than 6 fields, an import appends exactly the items, variants
\* included, that the file without these rows gives, and the import is
\* refused only if the file without these rows gives no item.
C19_ShortRowSkipped ==
  [][HasShortRow =>
       LET rest == parseCSV(WithoutShortRows(selectedFile[1]), now)
       IN /\ ImportStep => Parsed(Imported) = rest.items
          /\ (error = "" /\ error' # "") => rest.items = <<>>]_vars

\* the selected file holds the short row A1,Shirt,M,true followed by the
\* row A1,Shirt,XL,false,0,R2, and the dialog shows no error
C19_Witness ==
  /\ selectedFile # <<>>
  /\ NonBlankLines(selectedFile[1]) # <<>>
  /\ Tail(NonBlankLines(selectedFile[1])) = <<Row6, Row2>>
  /\ error = ""

\* a file of fewer than two non-blank lines
FewLines(text) == Len(NonBlankLines(text)) < 2

\* a file that gives no item: every data row is short
BadFile(text) == FewLines(text) \/ DataRows(text) = <<>>

\* C20 (parse errors abort the import): while the selected file has fewer
\* than two non-blank lines or gives no item, no step hands items to
\* handleCSVImport (the file is not consumed and no save is scheduled), and
\* the step that reports the error, "Empty" for the first kind of file and
\* "NoData" for the second, leaves the inventory, the dirty flag, the
\* cache, the scheduled saves and the selected file as they were.
C20_ParseErrorAborts ==
  [][(selectedFile # <<>> /\ BadFile(selectedFile[1])) =>
       /\ ~(selectedFile' = <<>> /\ ticks' # ticks)
       /\ (error' # "" /\ error' # error) =>
            /\ error' = IF FewLines(selectedFile[1]) THEN "Empty"
                        ELSE "NoData"
            /\ items' = items
            /\ dirty' = dirty
            /\ cache' = cache
            /\ ticks' = ticks
            /\ saveTimer' = saveTimer
            /\ selectedFile' = selectedFile]_vars

\* the import of a file that holds the header only has been refused while
\* the inventory holds an unsaved item
C20_Witness ==
  /\ selectedFile = <<CsvHeader>>
  /\ error = "Empty"
  /\ hasLoaded
  /\ items # <<>>
  /\ dirty
  /\ cache[user].present

\* the ids of a definition set are pairwise distinct
UniqueIds(fields) ==
  \A k, n \in 1..Len(fields) : k # n => fields[k].id # fields[n].id

\* C21 (custom-field ids are unique): every step leaves the definitions
\* with pairwise distinct ids, and the step that refuses an add because of
\* a collision leaves the definitions unchanged and schedules no save.
C21_UniqueFieldIds ==
  [][/\ UniqueIds(customFields')
     /\ toast' = "FieldExists"
          => (customFields' = customFields /\ ticks' = ticks)]_vars

\* an add was refused for a collision while two definitions are held
C21_Witness ==
  /\ toast = "FieldExists"
  /\ Len(customFields) = 2

\* the open row or form has no SKU, no title, or no size that is not blank
Incomplete(d) ==
  \/ d.sku = <<>>
  \/ d.title = <<>>
  \/ \A j \in 1..Len(d.sizes) : Trim(d.sizes[j].size) = <<>>

\* C22 (item-creation validation): while the open add-item row or form has
\* an empty SKU, an empty title or no variant with a size, no step changes
\* the inventory or schedules a save.
C22_CreationValidated ==
  [][(draft # <<>> /\ Incomplete(draft[1]))
      => (items' = items /\ Len(ticks') <= Len(ticks))]_vars

\* the row has refused a submission without a title while the inventory
\* holds an item
C22_Witness ==
  /\ draft # <<>>
  /\ draft[1].title = <<>>
  /\ toast = "TitleEmpty"
  /\ items # <<>>

\* C23 (write-through cache): whenever an identity is signed in and loaded,
\* its cache snapshot equals the in-memory state after every step; and when
\* a step starts a save, the cache snapshot of the signed-in identity
\* already equals the in-memory state before the step.
C23_WriteThroughCache ==
  [][/\ (user' # NoUser /\ hasLoaded')
          => cache'[user'] = Snapshot(items', customFields')
     /\ Len(saves') > Len(saves)
          => (user # NoUser /\ cache[user] = Memory)]_vars

\* loaded, an item was added after the load and the cache holds it
C23_Witness ==
  /\ user # NoUser /\ hasLoaded
  /\ items # <<>> /\ remote[user].inventory = <<>>
  /\ cache[user] = Memory

\* C24 (best-effort cache): a mutation applied while loaded and while the
\* storage refuses writes still changes the in-memory state, sets dirty and
\* arms the debounce timer, and leaves the cache alone; a step that starts
\* a load while the cache value of the identity is missing or damaged
\* hydrates nothing and starts the load at ensureUserRow.
C24_CacheBestEffort ==
  [][/\ (storageFull /\ hasLoaded /\ user # NoUser /\ loads' = loads
          /\ items' # items)
          => (cache' = cache /\ dirty' /\ saveTimer' # <<>>
              /\ Len(ticks') = Len(ticks) + 1)
     /\ (Len(loads') = Len(loads) + 1 /\ user # NoUser
          /\ (~cache[user].present \/ IsCorrupt(cache[user])))
          => (items' = items /\ customFields' = customFields
              /\ loads'[Len(loads')].pc = "ensure")]_vars

\* the storage is full and the cache value damaged; the item added since
\* is in memory and dirty, and the load started afterwards has passed
\* ensureUserRow
C24_Witness ==
  /\ storageFull
  /\ user # NoUser /\ IsCorrupt(cache[user])
  /\ items # <<>> /\ remote[user].inventory = <<>>
  /\ \E n \in 1..Len(loads) : loads[n].pc = "read"

\* C25 (host lifecycle flush): a save started by a step that runs no
\* next-tick callback, that is by a host signal, is started only while
\* signed in, loaded and dirty, cancels the debounce timer and carries the
\* current in-memory snapshot; while not loaded or not dirty no step starts
\* a save.
C25_HostFlush ==
  [][/\ (Len(saves') > Len(saves) /\ ticks' = ticks)
          => (/\ user # NoUser /\ hasLoaded /\ dirty
              /\ saveTimer' = <<>>
              /\ SaveStarted(Current))
     /\ ~(hasLoaded /\ dirty) => Len(saves') <= Len(saves)]_vars

\* a host signal has flushed the item just added: its save is in flight
\* with the current snapshot and the timer is cancelled, while the
\* next-tick callback of the addition is still pending
C25_Witness ==
  /\ user # NoUser /\ hasLoaded /\ dirty
  /\ items # <<>>
  /\ Len(ticks) = 1
  /\ saves = <<Current>>
  /\ saveTimer = <<>>

\* C26 (single debounce timer): at most one debounce timer is pending; a
\* step that changes the in-memory state while signed in and loaded sets
\* dirty and leaves exactly the timer armed by the new render pending, the
\* earlier one being cancelled; a save started by a timer is started by the
\* timer armed last, never by a cancelled one.
C26_SingleTimer ==
  [][/\ Len(saveTimer') <= 1
     /\ (/\ user # NoUser /\ user' = user /\ hasLoaded /\ hasLoaded'
         /\ (items' # items \/ customFields' # customFields))
          => (/\ dirty'
              /\ saveTimer' = <<Closure(user', items', customFields')>>)
     /\ (Len(saves') > Len(saves) /\ ticks' = ticks)
          => (\/ saves'[Len(saves')] = Current
              \/ /\ saveTimer # <<>>
                 /\ saves'[Len(saves')] = saveTimer[Len(saveTimer)])]_vars

\* two key mutations of the loaded user whose next-tick callbacks are still
\* pending and no save started yet: the timer of the first mutation was
\* cancelled, the one of the second is the only one pending
C26_Witness ==
  /\ user # NoUser /\ hasLoaded /\ dirty
  /\ Len(ticks) = 2
  /\ ticks[1].user = user
  /\ ticks[2].items # ticks[1].items
  /\ items # ticks[2].items
  /\ saves = <<>>
  /\ saveTimer = <<Current>>

\* C27 (flush always cancels): every run of a next-tick flush leaves no
\* debounce timer pending, also when not dirty; when not dirty it starts no
\* save and changes neither dirty nor the in-memory state.
C27_FlushAlwaysCancels ==
  [][(ticks # <<>> /\ ticks' = Tail(ticks))
      => (/\ saveTimer' = <<>>
          /\ ~dirty => (/\ saves' = saves
                        /\ dirty' = dirty
                        /\ items' = items
                        /\ customFields' = customFields))]_vars

\* a save is started: the number of saves in flight goes up
SaveEventuallyStarted ==
  \E k \in 0..MaxPending : <>(Len(saves) = k /\ <>(Len(saves) > k))

\* C28 (eventual save): when dirty has been set and the debounce timer is
\* armed (no save started since), then, unless the identity signs in again
\* or is no longer loaded, a save is eventually started and dirty is
\* eventually false, whether or not a further mutation happens.
C28_EventualSave ==
  [](( user # NoUser /\ hasLoaded /\ dirty /\ saveTimer # <<>>)
       => \/ <>(user = NoUser \/ ~hasLoaded)
          \/ (SaveEventuallyStarted /\ <>(~dirty)))

\* C29 (non-negative quantity): every variant of every item has a quantity
\* of at least 0, whichever operation produced it.
C29_NonNegativeQuantity ==
  \A k \in 1..Len(items) : \A j \in 1..Len(items[k].variants) :
    items[k].variants[j].quantity >= 0

\* the lines of the exported file
ExportedLines == Split(exportCSV(items), "\n")

\* the seven columns of the row of variant j of item k
Columns(k, j) ==
  <<items[k].sku, items[k].title, items[k].variants[j].size,
    BoolToText(items[k].variants[j].inStock),
    IntToText(items[k].variants[j].quantity),
    items[k].variants[j].location, items[k].imageUrl>>

\* the position in a row of the first character of column i
RECURSIVE ColumnStart(_, _)
ColumnStart(cols, i) ==
  IF i = 1 THEN 1 ELSE ColumnStart(cols, i - 1) + Len(cols[i - 1]) + 1

\* the row holds the columns as they are, in order, with one comma between
\* two columns and nothing else
RowHolds(line, cols) ==
  /\ Len(line) = ColumnStart(cols, Len(cols)) + Len(cols[Len(cols)]) - 1
  /\ \A i \in 1..Len(cols) :
       /\ SubSeq(line, ColumnStart(cols, i),
                 ColumnStart(cols, i) + Len(cols[i]) - 1) = cols[i]
       /\ i > 1 => line[ColumnStart(cols, i) - 1] = ","

RowCells == Split(NonBlankLines(selectedFile[1])[2], ",")

\* the text is an integer: an optional sign followed by digits only
IsInteger(t) ==
  LET body == IF t # <<>> /\ t[1] \in {"-", "+"} THEN Tail(t) ELSE t
  IN body # <<>> /\ \A k \in 1..Len(body) : IsDigit(body[k])

\* the value of an integer text
RECURSIVE IntegerValue(_)
IntegerValue(t) ==
  IF t = <<>> THEN 0
  ELSE IF t[1] = "-" THEN 0 - IntegerValue(Tail(t))
  ELSE IF t[1] = "+" THEN IntegerValue(Tail(t))
  ELSE 10 * IntegerValue(SubSeq(t, 1, Len(t) - 1)) + DigitValue(t[Len(t)])

\* C31 (field parsing on import): the imported variant is in stock exactly
\* when the IN STOCK cell is "true" in any letter case or "1"; its quantity
\* is the integer the QUANTITY cell holds, and 0 when the cell is not an
\* integer; inStock does not depend on the quantity.
C31_FieldParsing ==
  [][ImportStep =>
       \A k \in 1..Len(Imported) : \A j \in 1..Len(Imported[k].variants) :
         LET v == Imported[k].variants[j]
         IN /\ v.inStock = (\/ toLowerCase(RowCells[4]) = <<"t", "r", "u", "e">>
                            \/ RowCells[4] = <<"1">>)
            /\ v.quantity = IF IsInteger(RowCells[5])
                            THEN IntegerValue(RowCells[5]) ELSE 0]_vars

\* C32 (custom-field id derivation): the id of every definition is its
\* stored label, lowercased, with white space replaced by underscores, so
\* that no two definitions store the same label.
C32_IdFromStoredLabel ==
  /\ \A k \in 1..Len(customFields) :
       customFields[k].id = FieldId(customFields[k].label)
  /\ \A k, n \in 1..Len(customFields) :
       k # n => customFields[k].label # customFields[n].label

\* the ids of the items of a list
ItemIds(its) == { its[k].id : k \in 1..Len(its) }

\* C33 (reload does not lose edits): while the same identity stays signed
\* in and no item is deleted by the user, an item that was in memory while
\* loaded (the cache of the identity holds it) is still in memory after
\* every step, also the steps of a reload.
C33_ReloadKeepsEdits ==
  [][(user # NoUser /\ user' = user)
      => \A id \in ItemIds(items) \cap ItemIds(cache[user].inventory) :
           id \in ItemIds(items')]_vars

\* C34 (remote never regresses): every save succeeds; a save is applied to
\* the remote row only when no save of the identity that was started
\* earlier with another snapshot is still in flight, so that no older
\* snapshot is applied after a newer one.
C34_RemoteNeverRegresses ==
  [][\A n \in 1..Len(saves) :
       (saves' = RemoveAt(saves, n) /\ toast' = "none")
         => \A m \in 1..(n - 1) :
              saves[m].user = saves[n].user => saves[m] = saves[n]]_vars

\* the items of a list were all added by identity u
OwnItems(its, u) == \A k \in 1..Len(its) : its[k].sku = OwnSku(u)

\* C35 (identity isolation): the remote row and the cache entry of every
\* identity hold only items that this identity added.
C35_IdentityIsolation ==
  \A u \in Users :
    /\ OwnItems(remote[u].inventory, u)
    /\ OwnItems(cache[u].inventory, u)

\* the (item, variant) positions at which two lists of the same shape differ
ChangedVariants(before, after) ==
  UNION { { <<k, j>> : j \in { n \in 1..Len(before[k].variants) :
                                  after[k].variants[n] # before[k].variants[n] } } :
            k \in 1..Len(before) }

\* the items keep their order and everything but the variants' quantity,
\* inStock and location; the variants keep their order, id and size
SameFrame(before, after) ==
  /\ Len(after) = Len(before)
  /\ \A k \in 1..Len(before) :
       /\ [after[k] EXCEPT !.variants = <<>>]
            = [before[k] EXCEPT !.variants = <<>>]
       /\ Len(after[k].variants) = Len(before[k].variants)
       /\ \A j \in 1..Len(before[k].variants) :
            /\ after[k].variants[j].id = before[k].variants[j].id
            /\ after[k].variants[j].size = before[k].variants[j].size

\* at most one variant differs, and it differs either in its location
\* alone or in its quantity and the inStock that follows from it
LocalUpdate(before, after) ==
  /\ SameFrame(before, after)
  /\ Cardinality(ChangedVariants(before, after)) <= 1
  /\ \A p \in ChangedVariants(before, after) :
       LET v == before[p[1]].variants[p[2]]
           w == after[p[1]].variants[p[2]]
       IN \/ w = [v EXCEPT !.location = w.location]
          \/ w = [v EXCEPT !.quantity = w.quantity,
                            !.inStock = w.quantity > 0]

\* C36 (variant-level updates are local): a quantity or location update
\* changes only that field (and inStock with the quantity) of the one
\* variant named, keeps every other item and variant, the items' other
\* fields and both orders; an update naming an id that is not held changes
\* nothing.
C36_LocalUpdates ==
  [][/\ (user' = user /\ Len(items') = Len(items))
          => LocalUpdate(items, items')
     /\ \A itemId \in HeldItemIds \cup {UnknownId} :
          \A variantId \in HeldVariantIds \cup {UnknownId} :
            (\/ itemId = UnknownId
             \/ variantId = UnknownId
             \/ ~\E k \in 1..Len(items) :
                    /\ items[k].id = itemId
                    /\ \E j \in 1..Len(items[k].variants) :
                         items[k].variants[j].id = variantId)
              => /\ \A q \in LocalQuantityInputs :
                      UpdateQuantity(items, itemId, variantId, q) = items
                 /\ \A l \in LocationInputs :
                      UpdateLocation(items, itemId, variantId, l) = items]_vars

\* two items are held and the variant L of the imported item A1 has got
\* the quantity 2 and the location Z, its neighbour M keeping the imported
\* quantity 10 and location R1
C36_Witness ==
  /\ Len(items) = 2
  /\ \E k \in 1..Len(items) :
       /\ Len(items[k].variants) = 2
       /\ items[k].variants[1].quantity = 10
       /\ items[k].variants[1].location = <<"R", "1">>
       /\ items[k].variants[2].quantity = 2
       /\ items[k].variants[2].inStock
       /\ items[k].variants[2].location = <<"Z">>

\* an item without its id and its customFields
WithoutId(item) ==
  [sku |-> item.sku, title |-> item.title, imageUrl |-> item.imageUrl,
   variants |-> item.variants]

\* C37 (CSV import appends): the import keeps the items held, unchanged and
\* in place, and puts after them one item per item of the parse result, in
\* parse order, each with an id that no item held has and no other imported
\* item has; an imported SKU that an item held has is not merged into it.
C37_ImportAppends ==
  [][ImportStep =>
       LET parsed == parseCSV(selectedFile[1], now).items
       IN /\ SubSeq(items', 1, Len(items)) = items
          /\ [k \in 1..Len(Imported) |-> WithoutId(Imported[k])] = parsed
          /\ \A k \in 1..Len(Imported) :
               /\ Imported[k].id \notin ItemIds(items)
               /\ \A n \in 1..Len(Imported) :
                    n # k => Imported[n].id # Imported[k].id]_vars

\* the item A1 added with the row is followed by two imported items, the
\* first of them with the SKU A1 as well
C37_Witness ==
  /\ Len(items) = 3
  /\ Len(items[1].id) = 1
  /\ Len(items[2].id) = 3 /\ Len(items[3].id) = 3
  /\ items[2].sku = items[1].sku
  /\ items[3].sku # items[1].sku
====
